---- MODULE Spec2Model ----
(***************************************************************************)
(* A model of opus_headers: the Ogg page reader (OggPage::parse), the      *)
(* packet reassembly (OpusPacket::parse, OpusPackets::parse), the header   *)
(* decoders (IdentificationHeader::parse, ChannelMappingTable::parse,      *)
(* CommentHeader::parse) and the byte scanner of lib.rs (parse,            *)
(* matches_head).                                                          *)
(*                                                                         *)
(* The byte source is a finite sequence of bytes `src` with a read         *)
(* position `pos`; reader.read_exact is ReadExact.  Integers decoded from  *)
(* the source are exact on the model's inputs, whose length fields stay    *)
(* below 2^31.                                                             *)
(***************************************************************************)
EXTENDS Integers, Sequences, FiniteSets, TLC

VARIABLES
    src,               \* the bytes of the source handed to the parse call
    pos,               \* bytes the reader has consumed so far
    prev_pos,          \* reader position when the latest OggPage::parse began
    pc,                \* control location of the running call
    result,            \* "none" while running, "Ok" or the ParseError kind
    page,              \* the page the latest OggPage::parse returned
    nread,             \* pages OggPage::parse has returned Ok so far
    in_pages,          \* the pages the source was encoded from (input oracle)
    continue_reading,  \* OpusPacket::parse: loop flag
    relevant_pages,    \* OpusPacket::parse: pages of the packet being built
    next_packet_page,  \* OpusPacket::parse: first page of the next packet
    packets,           \* OpusPackets::parse: the packets pushed so far
    comment_bytes,     \* the gathered bytes of the comment header
    cpos,              \* CommentHeader::parse: bytes consumed of comment_bytes
    vendor,            \* CommentHeader::parse: vstr
    user_comments,     \* CommentHeader::parse: comments (HashMap)
    entries_left,      \* CommentHeader::parse: iterations left of 0..commentlistlen
    entries_seen,      \* the entry strings decoded so far, in order
    claimed,           \* the latest length field decoded from the header
    alloc,             \* size of the latest buffer sized from a length field
    budget,            \* bytes of the header left when that length was decoded
    total,             \* comment gathering: running total of payload bytes
    in_header,         \* the comment header the source was encoded from (input oracle)
    ident,             \* the IdentificationHeader decoded last (`ident` of parse)
    comment,           \* parse: the CommentHeader found by the scan (`comment`)
    match_result,      \* parse: what matches_head returned last
    ident_count,       \* IdentificationHeaders produced by the call so far
    in_ident,          \* the identification header the source was encoded from
    in_stream          \* the parts the scanned stream was put together from

vars == <<src, pos, prev_pos, pc, result, page, nread, in_pages,
          continue_reading, relevant_pages, next_packet_page, packets,
          comment_bytes, cpos, vendor, user_comments, entries_left,
          entries_seen, claimed, alloc, budget, total, in_header,
          ident, comment, match_result, ident_count, in_ident, in_stream>>

pageVars == <<src, pos, prev_pos, page, nread, in_pages>>
packetVars == <<continue_reading, relevant_pages, next_packet_page, packets>>
commentVars == <<comment_bytes, cpos, vendor, user_comments, entries_left,
                 entries_seen, claimed, alloc, budget, total, in_header>>
headersVars == <<ident, comment, match_result, ident_count, in_ident, in_stream>>

(***************************************************************************)
(* Bounds of the model.                                                    *)
(***************************************************************************)
MaxSegs == 2          \* lacing entries per page in the page reader's inputs
MaxPages == 4         \* pages per stream in the packet reassembler's inputs
MaxEntries == 2       \* comment entries per header in the comment decoder's inputs

Byte == 0..255
NoPage == [none |-> TRUE]
NoHeader == [none |-> TRUE]
NoIdent == [none |-> TRUE]
NoComment == [none |-> TRUE]
NoTable == [none |-> TRUE]
NoStream == [none |-> TRUE]

(***************************************************************************)
(* Byte reader.                                                            *)
(***************************************************************************)

ReadLenient(s, p, n) ==
    LET got == IF n <= Len(s) - p THEN n ELSE Len(s) - p
    IN [ok |-> TRUE,
        bytes |-> SubSeq(s, p + 1, p + got) \o [i \in 1..(n - got) |-> 0],
        pos |-> p + got]

\* reader.read_exact(&mut buf) with buf of n bytes, at position p of s.  A
\* short source is an io::Error (UnexpectedEof); the reader is then drained.
ReadExact(s, p, n) ==
    IF n <= Len(s) - p
    THEN [ok |-> TRUE, bytes |-> SubSeq(s, p + 1, p + n), pos |-> p + n]
    ELSE [ok |-> FALSE, bytes |-> <<>>, pos |-> Len(s)]

\* The unsigned value of little-endian bytes.
RECURSIVE LeNat(_)
LeNat(b) == IF b = <<>> THEN 0 ELSE b[1] + 256 * LeNat(Tail(b))

RECURSIVE BeNat(_)
BeNat(b) == IF b = <<>> THEN 0 ELSE b[Len(b)] + 256 * BeNat(SubSeq(b, 1, Len(b) - 1))

U32Be(b) == BeNat(b)

\* u32::from_le_bytes
U32Le(b) == LeNat(b)

\* i64::from_le_bytes
I64Le(b) == IF b[8] >= 128 THEN LeNat(b) - 2^64 ELSE LeNat(b)

(***************************************************************************)
(* Ogg page reader.                                                        *)
(***************************************************************************)

\* The capture pattern compared at ogg_page.rs:22.
OggMagic == <<79, 103, 103, 83>>

IsOggMagicFirstByteOnly(ogg_magic) == ogg_magic[1] = OggMagic[1]

\* ogg_magic != [0x4f, 0x67, 0x67, 0x53], negated
IsOggMagic(ogg_magic) == ogg_magic = OggMagic

RECURSIVE SumSeq(_)
SumSeq(s) == IF s = <<>> THEN 0 ELSE s[1] + SumSeq(Tail(s))

TotalSegmentsAsCount(segment_table) == Len(segment_table)

\* segment_table.iter().map(|&b| b as usize).sum()
TotalSegments(segment_table) == SumSeq(segment_table)

PageErr(kind, p) == [err |-> kind, pos |-> p, page |-> NoPage]

\* OggPage::parse from position p of s: the error kind ("none" for Ok), the
\* reader position afterwards and the page.
OggPageParse(s, p) ==
    LET r1 == ReadExact(s, p, 4) IN
    IF ~r1.ok THEN PageErr("Io", r1.pos) ELSE
    IF ~IsOggMagic(r1.bytes) THEN PageErr("InvalidOggPage", r1.pos) ELSE
    LET r2 == ReadExact(s, r1.pos, 1) IN
    IF ~r2.ok THEN PageErr("Io", r2.pos) ELSE
    LET r3 == ReadExact(s, r2.pos, 1) IN
    IF ~r3.ok THEN PageErr("Io", r3.pos) ELSE
    LET r4 == ReadExact(s, r3.pos, 8) IN
    IF ~r4.ok THEN PageErr("Io", r4.pos) ELSE
    LET r5 == ReadExact(s, r4.pos, 4) IN
    IF ~r5.ok THEN PageErr("Io", r5.pos) ELSE
    LET r6 == ReadExact(s, r5.pos, 4) IN
    IF ~r6.ok THEN PageErr("Io", r6.pos) ELSE
    LET r7 == ReadExact(s, r6.pos, 4) IN
    IF ~r7.ok THEN PageErr("Io", r7.pos) ELSE
    LET r8 == ReadExact(s, r7.pos, 1) IN
    IF ~r8.ok THEN PageErr("Io", r8.pos) ELSE
    LET r9 == ReadExact(s, r8.pos, r8.bytes[1]) IN
    IF ~r9.ok THEN PageErr("Io", r9.pos) ELSE
    LET r10 == ReadExact(s, r9.pos, TotalSegments(r9.bytes)) IN
    IF ~r10.ok THEN PageErr("Io", r10.pos) ELSE
    [err |-> "none", pos |-> r10.pos,
     page |-> [version |-> r2.bytes[1],
               header_type |-> r3.bytes[1],
               granule_position |-> I64Le(r4.bytes),
               bitstream_serial_number |-> U32Le(r5.bytes),
               page_sequence_number |-> U32Le(r6.bytes),
               crc_checksum |-> U32Le(r7.bytes),
               page_segments |-> r8.bytes[1],
               segment_table |-> r9.bytes,
               payload |-> r10.bytes]]

\* header_type & 0x1 == 1
BitContinuation(header_type) == header_type % 2 = 1

\* header_type & 0x4 != 0
BitEndOfStream(header_type) == (header_type \div 4) % 2 = 1

(***************************************************************************)
(* Input streams: the page frame layout, written out.                      *)
(***************************************************************************)

Zeros(n) == [i \in 1..n |-> 0]

\* The bytes of one page: capture pattern, version, header_type, granule
\* position, serial number, sequence number, checksum, page_segments, the
\* lacing table and the payload.
EncodePage(header_type, segment_table, payload) ==
    OggMagic \o <<0, header_type>> \o Zeros(8) \o Zeros(4) \o Zeros(4)
        \o Zeros(4) \o <<Len(segment_table)>> \o segment_table \o payload

RECURSIVE EncodePages(_)
EncodePages(ps) ==
    IF ps = <<>> THEN <<>>
    ELSE EncodePage(ps[1].header_type, ps[1].segment_table, ps[1].payload)
            \o EncodePages(Tail(ps))

\* The payload of the k-th page of a stream: bytes that tell the pages and the
\* positions within a page apart.
PayloadOf(k, n) == [i \in 1..n |-> (16 * k + i) % 256]

MkPage(k, header_type, segment_table) ==
    [header_type |-> header_type, segment_table |-> segment_table,
     payload |-> PayloadOf(k, SumSeq(segment_table))]

\* s with byte i replaced by b
SetByte(s, i, b) == [s EXCEPT ![i] = b]

(***************************************************************************)
(* The page reader on its own: a caller that reads page after page.        *)
(***************************************************************************)

SeqsUpTo(S, n) == UNION {[1..k -> S] : k \in 0..n}

LacingValues == {0, 1, 255}
Tables == SeqsUpTo(LacingValues, MaxSegs)

\* Every proper prefix of s: the source ends early.
Truncations(s) == {SubSeq(s, 1, k) : k \in 0..(Len(s) - 1)}

\* s with one byte of the capture pattern that starts at offset `at` altered.
BadCaptures(s, at) ==
    {SetByte(s, at + i, b) : i \in 1..4, b \in {0, 79, 83}} \ {s}

\* No header decoded, no scan under way.
IdleHeaders ==
    /\ ident = NoIdent
    /\ comment = NoComment
    /\ match_result = "None"
    /\ ident_count = 0
    /\ in_ident = NoIdent
    /\ in_stream = NoStream

IdleCommon ==
    /\ IdleHeaders
    /\ continue_reading = FALSE
    /\ relevant_pages = <<>>
    /\ next_packet_page = NoPage
    /\ packets = <<>>
    /\ comment_bytes = <<>>
    /\ cpos = 0
    /\ vendor = <<>>
    /\ user_comments = <<>>
    /\ entries_left = 0
    /\ entries_seen = <<>>
    /\ claimed = 0
    /\ alloc = 0
    /\ budget = 0
    /\ total = 0
    /\ in_header = NoHeader

InitPage ==
    /\ \E t \in Tables, ht \in {0, 1}, more \in BOOLEAN :
         LET first == MkPage(1, ht, t)
             ps == IF more THEN <<first, MkPage(2, 4, <<1>>)>> ELSE <<first>>
             clean == EncodePages(ps)
             second == Len(EncodePages(<<first>>))
         IN /\ in_pages = ps
            /\ src \in {clean} \cup Truncations(clean) \cup BadCaptures(clean, 0)
                    \cup (IF more THEN BadCaptures(clean, second) ELSE {})
    /\ pos = 0
    /\ prev_pos = 0
    /\ pc = "read"
    /\ result = "none"
    /\ page = NoPage
    /\ nread = 0
    /\ IdleCommon

\* One call of OggPage::parse by a caller that reads until the first error.
ReadPage ==
    /\ pc = "read"
    /\ LET r == OggPageParse(src, pos) IN
         /\ prev_pos' = pos
         /\ pos' = r.pos
         /\ page' = r.page
         /\ nread' = IF r.err = "none" THEN nread + 1 ELSE nread
         /\ pc' = IF r.err = "none" THEN "read" ELSE "done"
         /\ result' = r.err
    /\ UNCHANGED <<headersVars, src, in_pages, packetVars, commentVars>>

NextPage == ReadPage

SpecPage == InitPage /\ [][NextPage]_vars

(***************************************************************************)
(* Claims about the page reader.                                           *)
(***************************************************************************)

RECURSIVE LacingSum(_, _)
LacingSum(t, n) == IF n = 0 THEN 0 ELSE LacingSum(t, n - 1) + t[n]

\* The bytes of the fixed part of a page frame: capture pattern, version,
\* header_type, granule position, serial number, sequence number, checksum,
\* page_segments.
FrameHeaderLen == 4 + 1 + 1 + 8 + 4 + 4 + 4 + 1

\* C4: for every page OggPage::parse accepts, the payload is as long as the
\* sum of the bytes of its lacing table, the lacing table and the payload are
\* the bytes of the source that follow the fixed header, and the reader has
\* consumed exactly the frame: nothing more was taken as payload.
C4_PayloadLenIsLacingSum ==
    page # NoPage =>
        LET n == Len(page.segment_table)
            sum == LacingSum(page.segment_table, n)
        IN /\ Len(page.payload) = sum
           /\ page.page_segments = n
           /\ page.segment_table
                = SubSeq(src, prev_pos + FrameHeaderLen + 1, prev_pos + FrameHeaderLen + n)
           /\ page.payload = SubSeq(src, pos - sum + 1, pos)
           /\ pos = prev_pos + FrameHeaderLen + n + sum

\* An accepted page with two lacing entries of different values, one of them 255.
C4_Witness ==
    /\ page # NoPage
    /\ page.segment_table = <<255, 1>>
    /\ Len(page.payload) = 256

\* C10: when the four bytes OggPage::parse starts at are not 'OggS', the call
\* fails with InvalidOggPage having consumed those four bytes and no more, no
\* page is returned and nothing is read afterwards.
C10_BadCaptureFailsAtOnce ==
    ( /\ pc = "done" \/ nread > 0
      /\ prev_pos + 4 <= Len(src)
      /\ SubSeq(src, prev_pos + 1, prev_pos + 4) # <<79, 103, 103, 83>> )
    => /\ result = "InvalidOggPage"
       /\ pos = prev_pos + 4
       /\ page = NoPage
       /\ pc = "done"

\* The second page of a stream starts with 'O' but not with 'OggS', although a
\* later part of the source is read as a page by nobody.
C10_Witness ==
    /\ result = "InvalidOggPage"
    /\ prev_pos > 0
    /\ src[prev_pos + 1] = 79
    /\ pos < Len(src)

\* The pages of ps whose frames lie wholly within the first n bytes of the
\* encoded stream.
RECURSIVE WholePages(_, _)
WholePages(ps, n) ==
    IF ps = <<>> THEN 0
    ELSE LET l == Len(EncodePages(<<ps[1]>>))
         IN IF l <= n THEN 1 + WholePages(Tail(ps), n - l) ELSE 0

\* The source is the encoded stream cut off somewhere, or the whole of it.
EndsEarly ==
    LET clean == EncodePages(in_pages)
    IN Len(src) <= Len(clean) /\ src = SubSeq(clean, 1, Len(src))

\* C12: on a source that ends before the page frame being read is complete,
\* OggPage::parse fails with Io and returns no page: the pages returned before
\* are the whole frames of the source with their whole payloads, and the frame
\* the source ends in is never returned, with a shortened payload or otherwise.
C12_ShortSourceFailsWithIo ==
    EndsEarly =>
        /\ nread <= WholePages(in_pages, Len(src))
        /\ page # NoPage => page.payload = in_pages[nread].payload
        /\ pc = "done" => /\ result = "Io"
                          /\ page = NoPage
                          /\ nread = WholePages(in_pages, Len(src))

\* The source ends inside the payload of its first page, after the whole
\* header and lacing table of that page.
C12_Witness ==
    /\ EndsEarly
    /\ result = "Io"
    /\ nread = 0
    /\ Len(in_pages[1].segment_table) = 2
    /\ Len(src) > FrameHeaderLen + 2
    /\ Len(src) < FrameHeaderLen + 2 + Len(in_pages[1].payload)

(***************************************************************************)
(* Packet reassembly: OpusPackets::parse and OpusPacket::parse.            *)
(***************************************************************************)

RECURSIVE FoldRest(_)
FoldRest(ps) ==
    IF ps = <<>> THEN <<>> ELSE ps[1].payload \o FoldRest(Tail(ps))

FoldPayloadsDroppingOrphan(ps) ==
    IF ps # <<>> /\ BitContinuation(ps[1].header_type)
    THEN FoldRest(Tail(ps)) ELSE FoldRest(ps)

\* relevant_pages.drain(..).map(|page| page.payload).fold(vec![], append)
RECURSIVE FoldPayloads(_)
FoldPayloads(ps) ==
    IF ps = <<>> THEN <<>> ELSE ps[1].payload \o FoldPayloads(Tail(ps))

\* The caller of OpusPackets::parse: it reads the first page after the header
\* pages and hands it over; a source that has already ended yields no packet.
StartPackets ==
    /\ pc = "start"
    /\ IF pos = Len(src)
       THEN /\ pc' = "done"
            /\ result' = "Ok"
            /\ UNCHANGED <<pos, prev_pos, page, nread, packetVars>>
       ELSE LET r == OggPageParse(src, pos) IN
            /\ prev_pos' = pos
            /\ pos' = r.pos
            /\ page' = r.page
            /\ IF r.err # "none"
               THEN /\ pc' = "done"
                    /\ result' = r.err
                    /\ UNCHANGED <<nread, packetVars>>
               ELSE \* OpusPackets::parse, then OpusPacket::parse up to its loop
                    /\ pc' = "packet"
                    /\ result' = "none"
                    /\ nread' = nread + 1
                    /\ packets' = <<>>
                    /\ continue_reading' = ((r.page.header_type \div 4) % 2 = 0)
                    /\ relevant_pages' = <<r.page>>
                    /\ next_packet_page' = NoPage
    /\ UNCHANGED <<headersVars, src, in_pages, commentVars>>

PacketReadNextKeepingPackets ==
    /\ pc = "packet"
    /\ continue_reading
    /\ LET r == OggPageParse(src, pos) IN
         /\ prev_pos' = pos
         /\ pos' = r.pos
         /\ page' = r.page
         /\ IF r.err # "none"
            THEN /\ pc' = "done"
                 /\ result' = r.err
                 /\ relevant_pages' = <<>>
                 /\ UNCHANGED <<nread, continue_reading, next_packet_page, packets>>
            ELSE LET next_page == r.page
                     is_relevant == next_page.header_type % 2 = 1
                     is_last == (next_page.header_type \div 4) % 2 = 0
                 IN /\ nread' = nread + 1
                    /\ continue_reading' = (is_relevant /\ ~is_last)
                    /\ relevant_pages' = IF is_relevant
                                         THEN Append(relevant_pages, next_page)
                                         ELSE relevant_pages
                    /\ next_packet_page' = IF is_relevant
                                           THEN next_packet_page
                                           ELSE next_page
                    /\ UNCHANGED <<pc, result, packets>>
    /\ UNCHANGED <<headersVars, src, in_pages, commentVars>>

\* One iteration of the while loop of OpusPacket::parse.
PacketReadNext ==
    /\ pc = "packet"
    /\ continue_reading
    /\ LET r == OggPageParse(src, pos) IN
         /\ prev_pos' = pos
         /\ pos' = r.pos
         /\ page' = r.page
         /\ IF r.err # "none"
            THEN \* `?`: the error leaves both parse functions, the locals drop
                 /\ pc' = "done"
                 /\ result' = r.err
                 /\ packets' = <<>>
                 /\ relevant_pages' = <<>>
                 /\ UNCHANGED <<nread, continue_reading, next_packet_page>>
            ELSE LET next_page == r.page
                     is_relevant == next_page.header_type % 2 = 1
                     is_last == (next_page.header_type \div 4) % 2 = 0
                 IN /\ nread' = nread + 1
                    /\ continue_reading' = (is_relevant /\ ~is_last)
                    /\ relevant_pages' = IF is_relevant
                                         THEN Append(relevant_pages, next_page)
                                         ELSE relevant_pages
                    /\ next_packet_page' = IF is_relevant
                                           THEN next_packet_page
                                           ELSE next_page
                    /\ UNCHANGED <<pc, result, packets>>
    /\ UNCHANGED <<headersVars, src, in_pages, commentVars>>

\* The end of OpusPacket::parse and the rest of the loop body of
\* OpusPackets::parse: the packet is pushed, and either the next
\* OpusPacket::parse begins with the page left over or the loop breaks.
FinishPacket ==
    /\ pc = "packet"
    /\ ~continue_reading
    /\ packets' = Append(packets, FoldPayloads(relevant_pages))
    /\ IF next_packet_page # NoPage
       THEN /\ continue_reading' = ((next_packet_page.header_type \div 4) % 2 = 0)
            /\ relevant_pages' = <<next_packet_page>>
            /\ next_packet_page' = NoPage
            /\ UNCHANGED <<pc, result>>
       ELSE /\ pc' = "done"
            /\ result' = "Ok"
            /\ relevant_pages' = <<>>
            /\ UNCHANGED <<continue_reading, next_packet_page>>
    /\ UNCHANGED <<headersVars, pageVars, commentVars>>

\* The pages a stream of the packet reassembler is made of.
PageKinds ==
    {<<0, <<1>>>>, <<0, <<2>>>>, <<1, <<1>>>>, <<1, <<0, 2>>>>, <<4, <<1>>>>, <<5, <<1>>>>}

PageLists ==
    UNION {{[i \in 1..n |-> MkPage(i, k[i][1], k[i][2])] : k \in [1..n -> PageKinds]}
              : n \in 0..MaxPages}

\* The source ends one byte early, or the capture pattern of its last page is wrong.
Damaged(ps) ==
    IF ps = <<>> THEN {}
    ELSE LET clean == EncodePages(ps)
             last == Len(EncodePages(SubSeq(ps, 1, Len(ps) - 1)))
         IN {SubSeq(clean, 1, Len(clean) - 1), SetByte(clean, last + 4, 0)}

InitPackets ==
    /\ in_pages \in PageLists
    /\ src \in {EncodePages(in_pages)} \cup Damaged(in_pages)
    /\ pos = 0
    /\ prev_pos = 0
    /\ pc = "start"
    /\ result = "none"
    /\ page = NoPage
    /\ nread = 0
    /\ IdleCommon

NextPackets == StartPackets \/ PacketReadNext \/ FinishPacket

SpecPackets == InitPackets /\ [][NextPackets]_vars

(***************************************************************************)
(* Claims about the packet reassembly.                                     *)
(***************************************************************************)

Clean == src = EncodePages(in_pages)

\* The index of the last page of the packet that starts at page i of ps: the
\* pages after i are taken as long as their bit 0x01 is set.
RECURSIVE PacketEnd(_, _)
PacketEnd(ps, i) ==
    IF i < Len(ps) /\ BitContinuation(ps[i + 1].header_type)
    THEN PacketEnd(ps, i + 1) ELSE i

RECURSIVE ConcatPayloads(_, _, _)
ConcatPayloads(ps, i, j) ==
    IF i > j THEN <<>> ELSE ps[i].payload \o ConcatPayloads(ps, i + 1, j)

\* The packets of the pages i.. of ps: one packet per page that begins one,
\* holding that page and all the continuation pages that follow it directly.
RECURSIVE GroupFrom(_, _)
GroupFrom(ps, i) ==
    IF i > Len(ps) THEN <<>>
    ELSE <<ConcatPayloads(ps, i, PacketEnd(ps, i))>> \o GroupFrom(ps, PacketEnd(ps, i) + 1)

NoEarlyEndOfStream(ps) ==
    \A i \in 1..(Len(ps) - 1) : ~BitEndOfStream(ps[i].header_type)

\* C1: for a stream of intact pages that begins with a page whose bit 0x01 is
\* unset and ends with the only page that has bit 0x04 set, itself the start
\* of a packet (newstart+end), the call succeeds
\* and each packet is a page with bit 0x01 unset followed by ALL the pages with
\* bit 0x01 set that follow it directly; [start][cont][cont][newstart+end]
\* gives two packets.
C1_PacketIsStartPlusAllContinuations ==
    ( /\ pc = "done"
      /\ Clean
      /\ Len(in_pages) >= 1
      /\ ~BitContinuation(in_pages[1].header_type)
      /\ NoEarlyEndOfStream(in_pages)
      /\ BitEndOfStream(in_pages[Len(in_pages)].header_type)
      /\ ~BitContinuation(in_pages[Len(in_pages)].header_type) )
    => /\ result = "Ok"
       /\ packets = GroupFrom(in_pages, 1)

\* C2: when the source ends, at a page boundary, without any page having had
\* bit 0x04 set, the call succeeds and returns every packet assembled so far,
\* the pending one last.
C2_EndOfInputIsSuccess ==
    ( /\ pc = "done"
      /\ Clean
      /\ Len(in_pages) >= 1
      /\ ~BitContinuation(in_pages[1].header_type)
      /\ \A i \in 1..Len(in_pages) : ~BitEndOfStream(in_pages[i].header_type) )
    => /\ result = "Ok"
       /\ packets = GroupFrom(in_pages, 1)

\* C3: no page is read after a page with bit 0x04 set, with or without bit
\* 0x01; once such a page has been read the call ends in success and the last
\* packet ends with that page's payload.
C3_EndOfStreamStopsReading ==
    /\ \A i \in 1..(nread - 1) :
         i <= Len(in_pages) => ~BitEndOfStream(in_pages[i].header_type)
    /\ ( /\ pc = "done"
         /\ nread >= 1
         /\ nread <= Len(in_pages)
         /\ BitEndOfStream(in_pages[nread].header_type) )
       => /\ result = "Ok"
          /\ packets # <<>>
          /\ LET last == packets[Len(packets)]
                 pl == in_pages[nread].payload
             IN /\ Len(last) >= Len(pl)
                /\ SubSeq(last, Len(last) - Len(pl) + 1, Len(last)) = pl

\* C13: an error ends the call with the error alone.  When a page read fails
\* during the reassembly the call is over and none of the packets pushed
\* before the failure, nor the pages of the packet being built, are returned.
C13_ErrorReturnsNoPackets ==
    result \notin {"none", "Ok"} =>
        /\ pc = "done"
        /\ packets = <<>>
        /\ relevant_pages = <<>>

\* The third page has a wrong capture pattern; the first packet had been
\* pushed when the second page, the start of a packet, was read.
C13_Witness ==
    /\ result = "InvalidOggPage"
    /\ Len(in_pages) = 3
    /\ nread = 2
    /\ ~BitEndOfStream(in_pages[1].header_type)
    /\ ~BitContinuation(in_pages[2].header_type)
    /\ ~BitEndOfStream(in_pages[2].header_type)

\* The first page of the source is intact and has been handed to
\* OpusPackets::parse with bit 0x01 set.
LeadingContinuation ==
    /\ nread >= 1
    /\ BitContinuation(in_pages[1].header_type)

\* C18: a first page with bit 0x01 set, handed over while no packet is being
\* built, is neither refused nor dropped: it becomes the first page of the
\* first packet, so that packet begins with exactly its payload; a failure of
\* the call, if any, comes from the read of a later page.
C18_LeadingContinuationStartsPacket ==
    LeadingContinuation =>
        LET first == in_pages[1].payload
            frame == Len(EncodePages(<<in_pages[1]>>))
        IN /\ result \notin {"none", "Ok"} => prev_pos >= frame
           /\ (pc = "packet" /\ packets = <<>>)
                => /\ relevant_pages # <<>>
                   /\ relevant_pages[1].payload = first
           /\ packets # <<>>
                => /\ Len(packets[1]) >= Len(first)
                   /\ SubSeq(packets[1], 1, Len(first)) = first
           /\ result = "Ok" => packets # <<>>

\* A stream that starts with a continuation page and goes on with the starts
\* of two more packets has been reassembled.
C18_Witness ==
    /\ LeadingContinuation
    /\ result = "Ok"
    /\ Len(packets) >= 2
    /\ packets[1] = in_pages[1].payload

\* The packets joined in the order returned.
RECURSIVE JoinPackets(_)
JoinPackets(pk) ==
    IF pk = <<>> THEN <<>> ELSE pk[1] \o JoinPackets(Tail(pk))

\* C20: when the reassembly of a stream of intact pages succeeds (no page
\* follows a page with bit 0x04), the returned packets joined in order are the
\* payloads of all the pages of the input joined in page order, and every page
\* of the input has been read.
C20_PacketsCoverAllPages ==
    ( /\ pc = "done"
      /\ result = "Ok"
      /\ Clean
      /\ NoEarlyEndOfStream(in_pages) )
    => /\ JoinPackets(packets) = ConcatPayloads(in_pages, 1, Len(in_pages))
       /\ nread = Len(in_pages)
       /\ pos = Len(src)

(***************************************************************************)
(* Comment header: gathering of its pages and CommentHeader::parse.        *)
(***************************************************************************)

\* The ceiling on the gathered comment header (120 MiB in the program), scaled
\* to the sizes of the model's headers.
CommentCeiling == 48

ExceedsCeiling(n) == n > CommentCeiling

\* The magic compared at opus_header_structs.rs:121.
OpusTagsMagic == <<79, 112, 117, 115, 84, 97, 103, 115>>

IsContinuationByte(c) == c \in 128..191

\* str::from_utf8(b).is_ok(), from byte i on
RECURSIVE Utf8ValidFrom(_, _)
Utf8ValidFrom(b, i) ==
    IF i > Len(b) THEN TRUE
    ELSE LET c == b[i] IN
         IF c < 128 THEN Utf8ValidFrom(b, i + 1)
         ELSE IF c \in 194..223
         THEN /\ i + 1 <= Len(b)
              /\ IsContinuationByte(b[i + 1])
              /\ Utf8ValidFrom(b, i + 2)
         ELSE IF c \in 224..239
         THEN /\ i + 2 <= Len(b)
              /\ b[i + 1] \in (IF c = 224 THEN 160..191
                               ELSE IF c = 237 THEN 128..159 ELSE 128..191)
              /\ IsContinuationByte(b[i + 2])
              /\ Utf8ValidFrom(b, i + 3)
         ELSE IF c \in 240..244
         THEN /\ i + 3 <= Len(b)
              /\ b[i + 1] \in (IF c = 240 THEN 144..191
                               ELSE IF c = 244 THEN 128..143 ELSE 128..191)
              /\ IsContinuationByte(b[i + 2])
              /\ IsContinuationByte(b[i + 3])
              /\ Utf8ValidFrom(b, i + 4)
         ELSE FALSE

Utf8Valid(b) == Utf8ValidFrom(b, 1)

\* The byte '='.
EqSign == 61

SplitAtLastEq(str) ==
    LET at == {i \in 1..Len(str) : str[i] = EqSign} IN
    IF at = {} THEN <<str>>
    ELSE LET i == CHOOSE x \in at : \A y \in at : y <= x
         IN <<SubSeq(str, 1, i - 1), SubSeq(str, i + 1, Len(str))>>

\* commentstr.splitn(2, "=").collect(): the string itself when it holds no
\* '=', else what is before and what is after its first '='.
SplitN2(str) ==
    LET at == {i \in 1..Len(str) : str[i] = EqSign} IN
    IF at = {} THEN <<str>>
    ELSE LET i == CHOOSE x \in at : \A y \in at : x <= y
         IN <<SubSeq(str, 1, i - 1), SubSeq(str, i + 1, Len(str))>>

\* HashMap::insert: the value stored under an equal key is replaced.
HashMapInsert(m, k, v) ==
    [x \in (DOMAIN m) \cup {k} |-> IF x = k THEN v ELSE m[x]]

\* Gathering ends with an error: nothing is decoded.
GatherFail(kind) ==
    /\ pc' = "done"
    /\ result' = kind
    /\ UNCHANGED <<nread, comment_bytes, total>>

\* Gathering, the page that follows the identification page: its payload
\* starts the comment header whatever its header_type.
GatherFirst ==
    /\ pc = "gather_first"
    /\ LET r == OggPageParse(src, pos) IN
         /\ prev_pos' = pos
         /\ pos' = r.pos
         /\ page' = r.page
         /\ IF r.err # "none" THEN GatherFail(r.err)
            ELSE /\ nread' = nread + 1
                 /\ comment_bytes' = r.page.payload
                 /\ total' = Len(r.page.payload)
                 /\ IF ExceedsCeiling(Len(r.page.payload))
                    THEN /\ pc' = "done"
                         /\ result' = "CommentHeaderTooLarge"
                    ELSE /\ pc' = "gather"
                         /\ result' = "none"
    /\ UNCHANGED <<headersVars, src, in_pages, packetVars, cpos, vendor, user_comments,
                   entries_left, entries_seen, claimed, alloc, budget, in_header>>

GatherNextCheckedAtEnd ==
    /\ pc = "gather"
    /\ IF pos = Len(src)
       THEN /\ pc' = IF ExceedsCeiling(total) THEN "done" ELSE "decode"
            /\ result' = IF ExceedsCeiling(total) THEN "CommentHeaderTooLarge" ELSE "none"
            /\ UNCHANGED <<pos, prev_pos, page, nread, comment_bytes, total>>
       ELSE LET r == OggPageParse(src, pos) IN
            /\ prev_pos' = pos
            /\ pos' = r.pos
            /\ page' = r.page
            /\ IF r.err # "none" THEN GatherFail(r.err)
               ELSE /\ nread' = nread + 1
                    /\ IF r.page.header_type % 2 = 1
                       THEN /\ comment_bytes' = comment_bytes \o r.page.payload
                            /\ total' = total + Len(r.page.payload)
                            /\ UNCHANGED <<pc, result>>
                       ELSE /\ pc' = IF ExceedsCeiling(total) THEN "done" ELSE "decode"
                            /\ result' = IF ExceedsCeiling(total)
                                         THEN "CommentHeaderTooLarge" ELSE "none"
                            /\ UNCHANGED <<comment_bytes, total>>
    /\ UNCHANGED <<headersVars, src, in_pages, packetVars, cpos, vendor, user_comments,
                   entries_left, entries_seen, claimed, alloc, budget, in_header>>

\* Gathering, every later page: a page with bit 0x01 is appended and the
\* running total is checked at once; the first page without the bit, or the
\* end of the input, ends the gathering and the decoding begins.
GatherNext ==
    /\ pc = "gather"
    /\ IF pos = Len(src)
       THEN /\ pc' = "decode"
            /\ UNCHANGED <<pos, prev_pos, page, nread, comment_bytes, total, result>>
       ELSE LET r == OggPageParse(src, pos) IN
            /\ prev_pos' = pos
            /\ pos' = r.pos
            /\ page' = r.page
            /\ IF r.err # "none" THEN GatherFail(r.err)
               ELSE /\ nread' = nread + 1
                    /\ IF r.page.header_type % 2 = 1
                       THEN /\ comment_bytes' = comment_bytes \o r.page.payload
                            /\ total' = total + Len(r.page.payload)
                            /\ IF ExceedsCeiling(total + Len(r.page.payload))
                               THEN /\ pc' = "done"
                                    /\ result' = "CommentHeaderTooLarge"
                               ELSE UNCHANGED <<pc, result>>
                       ELSE /\ pc' = "decode"
                            /\ UNCHANGED <<comment_bytes, total, result>>
    /\ UNCHANGED <<headersVars, src, in_pages, packetVars, cpos, vendor, user_comments,
                   entries_left, entries_seen, claimed, alloc, budget, in_header>>

DecodeFail(kind, at) ==
    /\ pc' = "done"
    /\ result' = kind
    /\ cpos' = at
    /\ UNCHANGED <<vendor, user_comments, entries_left, entries_seen>>

\* CommentHeader::parse over the gathered bytes, up to its for loop: the
\* magic, the vendor string and the number of comments.
DecodeHead ==
    /\ pc = "decode"
    /\ LET m == ReadExact(comment_bytes, cpos, 8) IN
       IF ~m.ok
       THEN DecodeFail("Io", m.pos) /\ UNCHANGED <<claimed, alloc, budget>>
       ELSE IF m.bytes # OpusTagsMagic
       THEN DecodeFail("InvalidOpusHeader", m.pos) /\ UNCHANGED <<claimed, alloc, budget>>
       ELSE LET l == ReadExact(comment_bytes, m.pos, 4) IN
       IF ~l.ok
       THEN DecodeFail("Io", l.pos) /\ UNCHANGED <<claimed, alloc, budget>>
       ELSE LET vlen == U32Le(l.bytes)
                v == ReadExact(comment_bytes, l.pos, vlen)
            IN \* vec![0; vlen as usize] comes before the read
               /\ claimed' = vlen
               /\ alloc' = vlen
               /\ budget' = Len(comment_bytes) - l.pos
               /\ IF ~v.ok THEN DecodeFail("Io", v.pos)
                  ELSE IF ~Utf8Valid(v.bytes) THEN DecodeFail("Encoding", v.pos)
                  ELSE LET n == ReadExact(comment_bytes, v.pos, 4) IN
                       IF ~n.ok THEN DecodeFail("Io", n.pos)
                       ELSE /\ vendor' = v.bytes
                            /\ entries_left' = U32Le(n.bytes)
                            /\ cpos' = n.pos
                            /\ pc' = "entries"
                            /\ UNCHANGED <<result, user_comments, entries_seen>>
    /\ UNCHANGED <<headersVars, pageVars, packetVars, comment_bytes, total, in_header>>

\* One iteration of the for loop of CommentHeader::parse.
DecodeEntry ==
    /\ pc = "entries"
    /\ entries_left > 0
    /\ LET l == ReadExact(comment_bytes, cpos, 4) IN
       IF ~l.ok
       THEN DecodeFail("Io", l.pos) /\ UNCHANGED <<claimed, alloc, budget>>
       ELSE LET commentlen == U32Le(l.bytes)
                c == ReadExact(comment_bytes, l.pos, commentlen)
            IN \* vec![0; commentlen as usize] comes before the read
               /\ claimed' = commentlen
               /\ alloc' = commentlen
               /\ budget' = Len(comment_bytes) - l.pos
               /\ IF ~c.ok THEN DecodeFail("Io", c.pos)
                  ELSE IF ~Utf8Valid(c.bytes) THEN DecodeFail("Encoding", c.pos)
                  ELSE LET parts == SplitN2(c.bytes) IN
                       /\ user_comments' = IF Len(parts) = 2
                                           THEN HashMapInsert(user_comments, parts[1], parts[2])
                                           ELSE user_comments
                       /\ entries_seen' = Append(entries_seen, c.bytes)
                       /\ entries_left' = entries_left - 1
                       /\ cpos' = c.pos
                       /\ UNCHANGED <<pc, result, vendor>>
    /\ UNCHANGED <<headersVars, pageVars, packetVars, comment_bytes, total, in_header>>

\* The for loop is over: Ok(CommentHeader { vendor, user_comments }).
DecodeDone ==
    /\ pc = "entries"
    /\ entries_left = 0
    /\ pc' = "done"
    /\ result' = "Ok"
    /\ UNCHANGED <<headersVars, pageVars, packetVars, commentVars>>

(***************************************************************************)
(* Input streams of the comment decoder: the comment header layout,        *)
(* written out and cut into pages.                                         *)
(***************************************************************************)

\* The four little-endian bytes of n.
U32Bytes(n) ==
    <<n % 256, (n \div 256) % 256, (n \div 65536) % 256, (n \div 16777216) % 256>>

\* A forged length field: 0x7FFFFF7F, about 2 GiB in either byte order.
HugeLenBytes == <<127, 255, 255, 127>>

\* "A=x", "A=y=z", "B", "L=" with a value of 16 bytes (among them a two-byte
\* character), and a byte that is no UTF-8.
EntryAx == <<65, 61, 120>>
EntryAyz == <<65, 61, 121, 61, 122>>
EntryB == <<66>>
LyricsValue == <<195, 169>> \o [i \in 1..14 |-> 96 + i]
EntryLyrics == <<76, 61>> \o LyricsValue
EntryBadUtf8 == <<255>>
EntryStrings == {EntryAx, EntryAyz, EntryB, EntryLyrics, EntryBadUtf8}

\* The length fields as they should be, the vendor's or one entry's forged to
\* 0x7FFFFF7F, or the last entry's one byte too long.
Forges(es) ==
    {[kind |-> "none", at |-> 0], [kind |-> "vendor_huge", at |-> 0]}
        \cup {[kind |-> "entry_huge", at |-> j] : j \in 1..Len(es)}
        \cup {[kind |-> "entry_plus1", at |-> j] : j \in {Len(es)} \ {0}}

\* The length field written for entry j of length n.
EntryLenField(n, j, forge) ==
    IF forge.at = j /\ forge.kind = "entry_huge" THEN HugeLenBytes
    ELSE IF forge.at = j /\ forge.kind = "entry_plus1" THEN U32Bytes(n + 1)
    ELSE U32Bytes(n)

RECURSIVE EncodeEntries(_, _, _)
EncodeEntries(es, j, forge) ==
    IF j > Len(es) THEN <<>>
    ELSE EntryLenField(Len(es[j]), j, forge) \o es[j] \o EncodeEntries(es, j + 1, forge)

\* The bytes of a comment header: magic, vendor_length, vendor, comment_count
\* and the entries, each with its length.
EncodeComment(h) ==
    OpusTagsMagic
        \o (IF h.forge.kind = "vendor_huge" THEN HugeLenBytes ELSE U32Bytes(Len(h.vendor)))
        \o h.vendor \o U32Bytes(Len(h.entries)) \o EncodeEntries(h.entries, 1, h.forge)

\* b cut into pages of c payload bytes, the k-th page of the header first: the
\* first page starts a packet, the others continue it.
RECURSIVE CommentPages(_, _, _)
CommentPages(b, c, k) ==
    IF Len(b) <= c
    THEN <<[header_type |-> IF k = 1 THEN 0 ELSE 1, segment_table |-> <<Len(b)>>,
            payload |-> b]>>
    ELSE <<[header_type |-> IF k = 1 THEN 0 ELSE 1, segment_table |-> <<c>>,
            payload |-> SubSeq(b, 1, c)]>>
            \o CommentPages(SubSeq(b, c + 1, Len(b)), c, k + 1)

ChunkSizes == {7, 16, 64}

\* A further continuation page whose payload is no part of the header proper.
PadPage == MkPage(9, 1, <<20>>)

\* The first pages after the comment header.
TailPage == MkPage(10, 0, <<3>>)
SecondTailPage == MkPage(11, 4, <<2>>)

StreamOf(h) ==
    CommentPages(EncodeComment(h), h.chunk, 1)
        \o (IF h.pad THEN <<PadPage>> ELSE <<>>)
        \o (IF h.tail = "none" THEN <<>>
            ELSE IF h.tail = "two" THEN <<TailPage, SecondTailPage>> ELSE <<TailPage>>)

InitComment ==
    /\ \E es \in SeqsUpTo(EntryStrings, MaxEntries) :
       \E f \in Forges(es), c \in ChunkSizes, p \in BOOLEAN,
          t \in {"none", "page", "two", "torn"} :
         in_header = [vendor |-> <<118>>, entries |-> es, forge |-> f,
                      chunk |-> c, pad |-> p, tail |-> t]
    /\ in_pages = StreamOf(in_header)
    /\ src = LET clean == EncodePages(in_pages) IN
             IF in_header.tail = "torn" THEN SubSeq(clean, 1, Len(clean) - 1) ELSE clean
    /\ pos = 0
    /\ prev_pos = 0
    /\ pc = "gather_first"
    /\ result = "none"
    /\ page = NoPage
    /\ nread = 0
    /\ continue_reading = FALSE
    /\ relevant_pages = <<>>
    /\ next_packet_page = NoPage
    /\ packets = <<>>
    /\ comment_bytes = <<>>
    /\ cpos = 0
    /\ vendor = <<>>
    /\ user_comments = <<>>
    /\ entries_left = 0
    /\ entries_seen = <<>>
    /\ claimed = 0
    /\ alloc = 0
    /\ budget = 0
    /\ total = 0
    /\ IdleHeaders

NextComment == GatherFirst \/ GatherNext \/ DecodeHead \/ DecodeEntry \/ DecodeDone

SpecComment == InitComment /\ [][NextComment]_vars

(***************************************************************************)
(* Claims about the comment header.                                        *)
(***************************************************************************)

\* C5: every buffer sized from a length field of the comment header is at most
\* as large as what is left of the header, and a length field that exceeds what
\* is left ends the call with CommentTooLong.
C5_ForgedLengthRejectedBeforeAlloc ==
    /\ alloc <= budget
    /\ claimed > budget => result = "CommentTooLong"

RECURSIVE PayloadLenTo(_, _)
PayloadLenTo(ps, k) ==
    IF k = 0 THEN 0 ELSE PayloadLenTo(ps, k - 1) + Len(ps[k].payload)

\* The pages of the comment header: the first page of the stream and the pages
\* with bit 0x01 that follow it directly.
LastCommentPage == PacketEnd(in_pages, 1)

\* The first k for which the payloads of pages 1..k exceed the ceiling.
Crossing ==
    {k \in 1..LastCommentPage :
        /\ PayloadLenTo(in_pages, k) > CommentCeiling
        /\ \A j \in 1..(k - 1) : PayloadLenTo(in_pages, j) <= CommentCeiling}

\* C6: the running total is the number of bytes gathered; as soon as it exceeds
\* the ceiling the call has failed with CommentHeaderTooLarge, right after the
\* page that crossed the ceiling and with the reader at the end of that page,
\* the pages behind it unread; the call fails so only then.
C6_CeilingCheckedAfterEachPage ==
    /\ total = Len(comment_bytes)
    /\ total > CommentCeiling =>
         /\ pc = "done"
         /\ result = "CommentHeaderTooLarge"
         /\ nread \in Crossing
         /\ pos = Len(EncodePages(SubSeq(in_pages, 1, nread)))
    /\ result = "CommentHeaderTooLarge" => total > CommentCeiling
    /\ (Crossing # {} /\ pc = "done") => result = "CommentHeaderTooLarge"

\* The ceiling is crossed in the middle of the header's pages: later pages of
\* the source are left unread.
C6_Witness ==
    /\ result = "CommentHeaderTooLarge"
    /\ nread >= 2
    /\ nread < LastCommentPage
    /\ pos < Len(src)

\* '=' is the byte 61.
HasEq(e) == \E i \in 1..Len(e) : e[i] = 61
FirstEq(e) == CHOOSE i \in 1..Len(e) : e[i] = 61 /\ \A j \in 1..(i - 1) : e[j] # 61
KeyOf(e) == SubSeq(e, 1, FirstEq(e) - 1)
ValueOf(e) == SubSeq(e, FirstEq(e) + 1, Len(e))

\* Nothing stands in the way of the decoding of the header the source holds.
WellFormedInput ==
    /\ in_header.forge.kind = "none"
    /\ \A j \in 1..Len(in_header.entries) : in_header.entries[j] # EntryBadUtf8
    /\ in_header.tail # "torn"
    /\ Crossing = {}

\* C7: what is decoded is the concatenation of the payloads of the page after
\* the identification page and of the pages with bit 0x01 that follow it
\* directly, the first page without the bit being read but left out; a header
\* that is well formed decodes, and the value of a tag is stored whole, as long
\* as declared, on however many pages it lies.
C7_GatheredAcrossContinuationPages ==
    /\ (pc \in {"decode", "entries"} \/ (pc = "done" /\ result = "Ok")) =>
         /\ comment_bytes = ConcatPayloads(in_pages, 1, LastCommentPage)
         /\ nread = IF LastCommentPage < Len(in_pages)
                    THEN LastCommentPage + 1 ELSE LastCommentPage
         /\ pos = Len(EncodePages(SubSeq(in_pages, 1, nread)))
    /\ (pc = "done" /\ WellFormedInput) =>
         /\ result = "Ok"
         /\ vendor = in_header.vendor
         /\ entries_seen = in_header.entries
         /\ \A j \in 1..Len(in_header.entries) :
              LET e == in_header.entries[j] IN
              ( /\ HasEq(e)
                /\ \A i \in (j + 1)..Len(in_header.entries) :
                     ~(HasEq(in_header.entries[i]) /\ KeyOf(in_header.entries[i]) = KeyOf(e)) )
              => /\ KeyOf(e) \in DOMAIN user_comments
                 /\ user_comments[KeyOf(e)] = ValueOf(e)
                 /\ Len(user_comments[KeyOf(e)]) = Len(e) - Len(KeyOf(e)) - 1

\* The value of the tag L lies on three continuation pages and is stored as
\* one string of 16 bytes.
C7_Witness ==
    /\ pc = "done"
    /\ result = "Ok"
    /\ in_header.chunk = 7
    /\ nread >= 6
    /\ <<76>> \in DOMAIN user_comments
    /\ user_comments[<<76>>] = LyricsValue
    /\ user_comments[<<76>>]
         = SubSeq(in_pages[4].payload, 3, 7) \o in_pages[5].payload \o in_pages[6].payload
    /\ pos < Len(src)

\* C8: every decoded entry that contains '=' is an entry of user_comments of
\* its own: as many entries are stored as were decoded with a '='.
C8_DuplicateKeysAllStored ==
    (pc = "done" /\ result = "Ok") =>
        Cardinality(DOMAIN user_comments)
            = Cardinality({j \in 1..Len(entries_seen) : HasEq(entries_seen[j])})

\* C9: an entry without '=' is no error and takes nothing with it: every entry
\* of the header is decoded, the keys stored are exactly what stands before
\* the FIRST '=' of the entries that have one, and what is stored under a key
\* is all that follows the first '=' of such an entry, later '=' included.
C9_NoSeparatorDroppedFirstSeparatorSplits ==
    (pc = "done" /\ WellFormedInput) =>
        /\ result = "Ok"
        /\ entries_seen = in_header.entries
        /\ DOMAIN user_comments
             = {KeyOf(in_header.entries[j]) :
                    j \in {i \in 1..Len(in_header.entries) : HasEq(in_header.entries[i])}}
        /\ \A k \in DOMAIN user_comments :
             \E j \in 1..Len(in_header.entries) :
                /\ in_header.entries[j] = k \o <<61>> \o user_comments[k]
                /\ ~HasEq(k)

\* "B" is dropped, "A=y=z" after it is stored under A with the value "y=z".
C9_Witness ==
    /\ pc = "done"
    /\ result = "Ok"
    /\ in_header.entries = <<EntryB, EntryAyz>>
    /\ entries_seen = <<EntryB, EntryAyz>>
    /\ DOMAIN user_comments = {<<65>>}
    /\ user_comments[<<65>>] = <<121, 61, 122>>

(***************************************************************************)
(* Identification header: IdentificationHeader::parse and                  *)
(* ChannelMappingTable::parse.                                             *)
(***************************************************************************)

\* The signature compared at opus_header_structs.rs:40.
OpusHeadMagic == <<79, 112, 117, 115, 72, 101, 97, 100>>

IsOpusHeadPrefixOnly(opus_magic) == SubSeq(opus_magic, 1, 4) = SubSeq(OpusHeadMagic, 1, 4)

\* opus_magic != [0x4f, 0x70, 0x75, 0x73, 0x48, 0x65, 0x61, 0x64], negated
IsOpusHead(opus_magic) == opus_magic = OpusHeadMagic

\* u16::from_le_bytes
U16Le(b) == LeNat(b)

I16LeUnsigned(b) == LeNat(b)

\* i16::from_le_bytes
I16Le(b) == IF b[2] >= 128 THEN LeNat(b) - 65536 ELSE LeNat(b)

HasMappingTableFamilyOne(channel_mapping_family) == channel_mapping_family = 1

\* channel_mapping_family != 0
HasMappingTable(channel_mapping_family) == channel_mapping_family # 0

IdentErr(kind, p) == [err |-> kind, pos |-> p, header |-> NoIdent]

\* ChannelMappingTable::parse from position p of s; a short read fails with
\* the error kind eof.
ChannelMappingTableParse(s, p, eof) ==
    LET r1 == ReadExact(s, p, 1) IN
    IF ~r1.ok THEN [err |-> eof, pos |-> r1.pos, table |-> NoTable] ELSE
    LET r2 == ReadExact(s, r1.pos, 1) IN
    IF ~r2.ok THEN [err |-> eof, pos |-> r2.pos, table |-> NoTable] ELSE
    LET stream_count == r1.bytes[1]
        r3 == ReadExact(s, r2.pos, stream_count)
    IN IF ~r3.ok THEN [err |-> eof, pos |-> r3.pos, table |-> NoTable] ELSE
       [err |-> "none", pos |-> r3.pos,
        table |-> [stream_count |-> stream_count,
                   coupled_stream_count |-> r2.bytes[1],
                   channel_mapping |-> r3.bytes]]

\* The fields of the identification header that follow the signature, from
\* position p of s; a short read fails with the error kind eof.
IdentFields(s, p, eof) ==
    LET r1 == ReadExact(s, p, 1) IN
    IF ~r1.ok THEN IdentErr(eof, r1.pos) ELSE
    LET r2 == ReadExact(s, r1.pos, 1) IN
    IF ~r2.ok THEN IdentErr(eof, r2.pos) ELSE
    LET r3 == ReadExact(s, r2.pos, 2) IN
    IF ~r3.ok THEN IdentErr(eof, r3.pos) ELSE
    LET r4 == ReadExact(s, r3.pos, 4) IN
    IF ~r4.ok THEN IdentErr(eof, r4.pos) ELSE
    LET r5 == ReadExact(s, r4.pos, 2) IN
    IF ~r5.ok THEN IdentErr(eof, r5.pos) ELSE
    LET r6 == ReadExact(s, r5.pos, 1) IN
    IF ~r6.ok THEN IdentErr(eof, r6.pos) ELSE
    LET channel_mapping_family == r6.bytes[1]
        t == IF HasMappingTable(channel_mapping_family)
             THEN ChannelMappingTableParse(s, r6.pos, eof)
             ELSE [err |-> "none", pos |-> r6.pos, table |-> NoTable]
    IN IF t.err # "none" THEN IdentErr(t.err, t.pos) ELSE
       [err |-> "none", pos |-> t.pos,
        header |-> [version |-> r1.bytes[1],
                    channel_count |-> r2.bytes[1],
                    pre_skip |-> U16Le(r3.bytes),
                    input_sample_rate |-> U32Le(r4.bytes),
                    output_gain |-> I16Le(r5.bytes),
                    channel_mapping_family |-> channel_mapping_family,
                    channel_mapping_table |-> t.table]]

\* IdentificationHeader::parse from position p of s.
IdentificationHeaderParse(s, p) ==
    LET m == ReadExact(s, p, 8) IN
    IF ~m.ok THEN IdentErr("Io", m.pos) ELSE
    IF ~IsOpusHead(m.bytes) THEN IdentErr("InvalidOpusHeader", m.pos) ELSE
    IdentFields(s, m.pos, "Io")

\* IdentificationHeader::parse on a reader over the payload of the first page.
DecodeIdent ==
    /\ pc = "ident"
    /\ LET r == IdentificationHeaderParse(src, pos) IN
         /\ pos' = r.pos
         /\ ident' = r.header
         /\ ident_count' = IF r.err = "none" THEN ident_count + 1 ELSE ident_count
         /\ result' = IF r.err = "none" THEN "Ok" ELSE r.err
         /\ pc' = "done"
    /\ UNCHANGED <<src, prev_pos, page, nread, in_pages, packetVars, commentVars,
                   comment, match_result, in_ident, in_stream>>

(***************************************************************************)
(* Header payloads: the layout of the identification header, written out.  *)
(***************************************************************************)

U16Bytes(n) == <<n % 256, (n \div 256) % 256>>

\* The two's complement of a 16-bit signed value, low byte first.
I16Bytes(n) == U16Bytes((n + 65536) % 65536)

\* The bytes of an identification header: signature, version, channel count,
\* pre-skip, input sample rate, output gain, mapping family, and whatever
\* follows the family byte.
EncodeIdent(h) ==
    OpusHeadMagic \o <<h.version, h.channel_count>> \o U16Bytes(h.pre_skip)
        \o U32Bytes(h.input_sample_rate) \o I16Bytes(h.output_gain)
        \o <<h.channel_mapping_family>> \o h.rest

\* What follows the family byte: nothing, a table of one stream, a table of
\* three streams, a table of no stream with a byte left over, and a table of
\* two streams that is one byte short.
RestBytes == {<<>>, <<1, 0, 7>>, <<3, 1, 2, 0, 255>>, <<0, 0, 9>>, <<2, 0, 5>>}

IdentInputs ==
    {[version |-> 1, channel_count |-> 2, pre_skip |-> ps, input_sample_rate |-> sr,
      output_gain |-> g, channel_mapping_family |-> f, rest |-> r] :
        ps \in {312, 43981}, sr \in {48000, 16909060},
        g \in {0, 256, 32767, 0 - 1, 0 - 32768}, f \in {0, 1, 255}, r \in RestBytes}

\* s with one byte of the 8-byte signature it starts with altered, or with the
\* signature of the other header kind in its place.
AlteredSignatures(s, other) ==
    ({SetByte(s, i, b) : i \in 1..8, b \in {0, 79, 255}}
        \cup {SetByte(s, i, (s[i] + 1) % 256) : i \in 1..8}
        \cup {other \o SubSeq(s, 9, Len(s))}) \ {s}

InitIdentDecode ==
    /\ in_ident \in IdentInputs
    /\ src \in LET clean == EncodeIdent(in_ident)
               IN {clean} \cup Truncations(clean) \cup AlteredSignatures(clean, OpusTagsMagic)
    /\ comment_bytes = <<>>
    /\ total = 0
    /\ in_header = NoHeader
    /\ pc = "ident"

InitCommentDecode ==
    /\ in_ident = NoIdent
    /\ src = <<>>
    /\ \E es \in SeqsUpTo({EntryAx, EntryB}, MaxEntries) :
         in_header = [vendor |-> <<118>>, entries |-> es,
                      forge |-> [kind |-> "none", at |-> 0],
                      chunk |-> 64, pad |-> FALSE, tail |-> "none"]
    /\ comment_bytes \in LET clean == EncodeComment(in_header)
                         IN {clean} \cup AlteredSignatures(clean, OpusHeadMagic)
    /\ total = Len(comment_bytes)
    /\ pc = "decode"

InitHeaders ==
    /\ InitIdentDecode \/ InitCommentDecode
    /\ pos = 0
    /\ prev_pos = 0
    /\ result = "none"
    /\ page = NoPage
    /\ nread = 0
    /\ in_pages = <<>>
    /\ continue_reading = FALSE
    /\ relevant_pages = <<>>
    /\ next_packet_page = NoPage
    /\ packets = <<>>
    /\ cpos = 0
    /\ vendor = <<>>
    /\ user_comments = <<>>
    /\ entries_left = 0
    /\ entries_seen = <<>>
    /\ claimed = 0
    /\ alloc = 0
    /\ budget = 0
    /\ ident = NoIdent
    /\ comment = NoComment
    /\ match_result = "None"
    /\ ident_count = 0
    /\ in_stream = NoStream

NextHeaders == DecodeIdent \/ DecodeHead \/ DecodeEntry \/ DecodeDone

SpecHeaders == InitHeaders /\ [][NextHeaders]_vars

(***************************************************************************)
(* Claims about the header decoders.                                       *)
(***************************************************************************)

\* C11: a payload whose first 8 bytes differ from 'OpusHead' (handed to
\* IdentificationHeader::parse) or from 'OpusTags' (handed to
\* CommentHeader::parse) in any byte is refused with InvalidOpusHeader, the
\* error kind of a bad header signature, after those 8 bytes have been read
\* and before any field is decoded: no header, vendor or comment comes back.
C11_AlteredSignatureRejected ==
    /\ ( /\ in_ident # NoIdent
         /\ pc = "done"
         /\ Len(src) >= 8
         /\ SubSeq(src, 1, 8) # <<79, 112, 117, 115, 72, 101, 97, 100>> )
       => /\ result = "InvalidOpusHeader"
          /\ ident = NoIdent
          /\ ident_count = 0
          /\ pos = 8
    /\ ( /\ in_header # NoHeader
         /\ pc # "decode"
         /\ Len(comment_bytes) >= 8
         /\ SubSeq(comment_bytes, 1, 8) # <<79, 112, 117, 115, 84, 97, 103, 115>> )
       => /\ result = "InvalidOpusHeader"
          /\ pc = "done"
          /\ cpos = 8
          /\ vendor = <<>>
          /\ user_comments = <<>>
          /\ entries_seen = <<>>

\* An identification header whose signature differs from 'OpusHead' in its
\* last byte only has been refused although all its fields are there.
C11_Witness ==
    /\ in_ident # NoIdent
    /\ result = "InvalidOpusHeader"
    /\ Len(src) = Len(EncodeIdent(in_ident))
    /\ SubSeq(src, 1, 7) = <<79, 112, 117, 115, 72, 101, 97>>
    /\ src[8] # 100

\* C15: a decoded IdentificationHeader has a ChannelMappingTable exactly when
\* its channel_mapping_family is not 0 (the family is the byte after the
\* output gain), and then stream_count and coupled_stream_count are the two
\* bytes after the family byte and channel_mapping is the stream_count bytes
\* that follow coupled_stream_count, in order; with family 0 nothing after the
\* family byte is read.
C15_MappingTableIffFamilyNonZero ==
    (in_ident # NoIdent /\ ident # NoIdent) =>
        /\ ident.channel_mapping_family = src[19]
        /\ (ident.channel_mapping_table # NoTable) <=> (src[19] # 0)
        /\ src[19] = 0 => pos = 19
        /\ src[19] # 0 =>
             LET t == ident.channel_mapping_table
             IN /\ t.stream_count = src[20]
                /\ t.coupled_stream_count = src[21]
                /\ Len(t.channel_mapping) = t.stream_count
                /\ \A i \in 1..t.stream_count : t.channel_mapping[i] = src[21 + i]
                /\ pos = 21 + t.stream_count

\* A header of family 255 has been decoded with a table of three streams.
C15_Witness ==
    /\ ident # NoIdent
    /\ ident.channel_mapping_family = 255
    /\ ident.channel_mapping_table # NoTable
    /\ ident.channel_mapping_table.channel_mapping = <<2, 0, 255>>

\* C16: a decoded IdentificationHeader carries the values the payload was
\* encoded from: version and channel_count as single bytes, pre_skip as a
\* 16-bit and input_sample_rate as a 32-bit unsigned little-endian integer,
\* output_gain as a 16-bit signed little-endian integer, and the family byte;
\* channel_count 2, 48000 Hz, family 0 gives a header without a table.
C16_FieldsDecodedAsEncoded ==
    (in_ident # NoIdent /\ ident # NoIdent) =>
        /\ ident.version = in_ident.version
        /\ ident.channel_count = in_ident.channel_count
        /\ ident.pre_skip = in_ident.pre_skip
        /\ ident.input_sample_rate = in_ident.input_sample_rate
        /\ ident.output_gain = in_ident.output_gain
        /\ ident.channel_mapping_family = in_ident.channel_mapping_family
        /\ ident.pre_skip = src[11] + 256 * src[12]
        /\ ( /\ in_ident.channel_count = 2
             /\ in_ident.input_sample_rate = 48000
             /\ in_ident.channel_mapping_family = 0 )
           => /\ ident.channel_count = 2
              /\ ident.input_sample_rate = 48000
              /\ ident.channel_mapping_table = NoTable

\* A header with a negative output gain, a sample rate of 48000 Hz and family
\* 0 has been decoded.
C16_Witness ==
    /\ ident # NoIdent
    /\ result = "Ok"
    /\ ident.output_gain = 0 - 32768
    /\ ident.pre_skip = 43981
    /\ ident.input_sample_rate = 48000
    /\ ident.channel_mapping_family = 0

(***************************************************************************)
(* The byte scanner: parse, matches_head and the header decoders it calls  *)
(* (lib.rs).  Its errors are UnexpectedEOF, Utf8Error, DidNotFindHeaders.  *)
(***************************************************************************)

NeverRetry(next) == "None"

\* if next[0] == 0x4f { Retry(next[0]) } else { None }
RetryOrNone(next) == IF next = 79 THEN "Retry" ELSE "None"

\* matches_head(current, reader) with the reader at position p of s: the
\* nested comparisons of the bytes that follow 'O' with "pus", then "Head" or
\* "Tags".  `next` starts as 0 and holds the byte read last; when no
\* signature matched, a last byte of 0x4f asks for a retry.
MatchesHead(current, s, p) ==
    LET Eof(q) == [err |-> "UnexpectedEOF", pos |-> q, res |-> "None"]
        Found(kind, q) == [err |-> "none", pos |-> q, res |-> kind]
        Rest(next, q) ==
            [err |-> "none", pos |-> q, res |-> RetryOrNone(next)]
    IN
    IF current # 79 THEN Rest(0, p) ELSE
    LET r1 == ReadExact(s, p, 1) IN
    IF ~r1.ok THEN Eof(r1.pos) ELSE
    IF r1.bytes[1] # 112 THEN Rest(r1.bytes[1], r1.pos) ELSE
    LET r2 == ReadExact(s, r1.pos, 1) IN
    IF ~r2.ok THEN Eof(r2.pos) ELSE
    IF r2.bytes[1] # 117 THEN Rest(r2.bytes[1], r2.pos) ELSE
    LET r3 == ReadExact(s, r2.pos, 1) IN
    IF ~r3.ok THEN Eof(r3.pos) ELSE
    IF r3.bytes[1] # 115 THEN Rest(r3.bytes[1], r3.pos) ELSE
    LET r4 == ReadExact(s, r3.pos, 1) IN
    IF ~r4.ok THEN Eof(r4.pos) ELSE
    IF r4.bytes[1] = 72
    THEN LET r5 == ReadExact(s, r4.pos, 1) IN
         IF ~r5.ok THEN Eof(r5.pos) ELSE
         IF r5.bytes[1] # 101 THEN Rest(r5.bytes[1], r5.pos) ELSE
         LET r6 == ReadExact(s, r5.pos, 1) IN
         IF ~r6.ok THEN Eof(r6.pos) ELSE
         IF r6.bytes[1] # 97 THEN Rest(r6.bytes[1], r6.pos) ELSE
         LET r7 == ReadExact(s, r6.pos, 1) IN
         IF ~r7.ok THEN Eof(r7.pos) ELSE
         IF r7.bytes[1] # 100 THEN Rest(r7.bytes[1], r7.pos) ELSE
         Found("Ident", r7.pos)
    ELSE IF r4.bytes[1] # 84 THEN Rest(r4.bytes[1], r4.pos) ELSE
         LET r5 == ReadExact(s, r4.pos, 1) IN
         IF ~r5.ok THEN Eof(r5.pos) ELSE
         IF r5.bytes[1] # 97 THEN Rest(r5.bytes[1], r5.pos) ELSE
         LET r6 == ReadExact(s, r5.pos, 1) IN
         IF ~r6.ok THEN Eof(r6.pos) ELSE
         IF r6.bytes[1] # 103 THEN Rest(r6.bytes[1], r6.pos) ELSE
         LET r7 == ReadExact(s, r6.pos, 1) IN
         IF ~r7.ok THEN Eof(r7.pos) ELSE
         IF r7.bytes[1] # 115 THEN Rest(r7.bytes[1], r7.pos) ELSE
         Found("Comment", r7.pos)

CommentErr(kind, p) == [err |-> kind, pos |-> p, header |-> NoComment]

\* The for loop of parse_comment_header with n iterations left, the reader at
\* position p of s and the map m.
RECURSIVE CommentEntries(_, _, _, _)
CommentEntries(s, p, n, m) ==
    IF n = 0 THEN [err |-> "none", pos |-> p, comments |-> m] ELSE
    LET l == ReadExact(s, p, 4) IN
    IF ~l.ok THEN [err |-> "UnexpectedEOF", pos |-> l.pos, comments |-> m] ELSE
    LET c == ReadExact(s, l.pos, U32Le(l.bytes)) IN
    IF ~c.ok THEN [err |-> "UnexpectedEOF", pos |-> c.pos, comments |-> m] ELSE
    IF ~Utf8Valid(c.bytes) THEN [err |-> "Utf8Error", pos |-> c.pos, comments |-> m] ELSE
    LET parts == SplitN2(c.bytes) IN
    CommentEntries(s, c.pos, n - 1,
                   IF Len(parts) = 2 THEN HashMapInsert(m, parts[1], parts[2]) ELSE m)

\* parse_comment_header with the reader at position p of s, right after the
\* signature.
ParseCommentHeader(s, p) ==
    LET l == ReadExact(s, p, 4) IN
    IF ~l.ok THEN CommentErr("UnexpectedEOF", l.pos) ELSE
    LET v == ReadExact(s, l.pos, U32Le(l.bytes)) IN
    IF ~v.ok THEN CommentErr("UnexpectedEOF", v.pos) ELSE
    IF ~Utf8Valid(v.bytes) THEN CommentErr("Utf8Error", v.pos) ELSE
    LET n == ReadExact(s, v.pos, 4) IN
    IF ~n.ok THEN CommentErr("UnexpectedEOF", n.pos) ELSE
    LET e == CommentEntries(s, n.pos, U32Le(n.bytes), <<>>) IN
    IF e.err # "none" THEN CommentErr(e.err, e.pos) ELSE
    [err |-> "none", pos |-> e.pos,
     header |-> [vendor |-> v.bytes, user_comments |-> e.comments]]

\* The call returns Err(kind): the locals ident and comment are dropped.
ScanFail(kind, p) ==
    /\ pc' = "done"
    /\ result' = kind
    /\ pos' = p
    /\ ident' = NoIdent
    /\ comment' = NoComment
    /\ match_result' = "None"
    /\ UNCHANGED ident_count

ScanReadIgnoringEof ==
    /\ pc = "scan"
    /\ LET c == ReadExact(src, pos, 1)
           cursor_value == IF c.ok THEN c.bytes[1] ELSE 0
           m == MatchesHead(cursor_value, src, c.pos)
       IN IF m.err # "none"
          THEN ScanFail(m.err, m.pos)
          ELSE /\ match_result' = m.res
               /\ pos' = m.pos
               /\ pc' = "matched"
               /\ UNCHANGED <<result, ident, comment, ident_count>>
    /\ UNCHANGED <<src, prev_pos, page, nread, in_pages, packetVars, commentVars,
                   in_ident, in_stream>>

\* The head of the outer loop of parse: one byte is read into cursor and
\* handed to matches_head; when the read fails the loop is over and, the
\* headers not both found, the call returns DidNotFindHeaders.
ScanRead ==
    /\ pc = "scan"
    /\ LET c == ReadExact(src, pos, 1) IN
       IF ~c.ok
       THEN ScanFail("DidNotFindHeaders", c.pos)
       ELSE LET m == MatchesHead(c.bytes[1], src, c.pos) IN
            IF m.err # "none"
            THEN ScanFail(m.err, m.pos)
            ELSE /\ match_result' = m.res
                 /\ pos' = m.pos
                 /\ pc' = "matched"
                 /\ UNCHANGED <<result, ident, comment, ident_count>>
    /\ UNCHANGED <<src, prev_pos, page, nread, in_pages, packetVars, commentVars,
                   in_ident, in_stream>>

\* One iteration of the inner loop: matches_head is called again with the
\* 0x4f that Retry carries.
ScanRetry ==
    /\ pc = "matched"
    /\ match_result = "Retry"
    /\ LET m == MatchesHead(79, src, pos) IN
       IF m.err # "none"
       THEN ScanFail(m.err, m.pos)
       ELSE /\ match_result' = m.res
            /\ pos' = m.pos
            /\ UNCHANGED <<pc, result, ident, comment, ident_count>>
    /\ UNCHANGED <<src, prev_pos, page, nread, in_pages, packetVars, commentVars,
                   in_ident, in_stream>>

\* The rest of the body of the outer loop: the header whose signature
\* matched is decoded and stored, and the loop breaks when both are there.
ScanHeader ==
    /\ pc = "matched"
    /\ match_result # "Retry"
    /\ LET i == IF match_result = "Ident"
                THEN IdentFields(src, pos, "UnexpectedEOF")
                ELSE [err |-> "none", pos |-> pos, header |-> ident]
           c == IF match_result = "Comment"
                THEN ParseCommentHeader(src, i.pos)
                ELSE [err |-> "none", pos |-> i.pos, header |-> comment]
       IN IF i.err # "none" THEN ScanFail(i.err, i.pos)
          ELSE IF c.err # "none" THEN ScanFail(c.err, c.pos)
          ELSE /\ ident' = i.header
               /\ comment' = c.header
               /\ ident_count' = IF match_result = "Ident"
                                 THEN ident_count + 1 ELSE ident_count
               /\ pos' = c.pos
               /\ match_result' = "None"
               /\ IF i.header # NoIdent /\ c.header # NoComment
                  THEN pc' = "done" /\ result' = "Ok"
                  ELSE pc' = "scan" /\ UNCHANGED result
    /\ UNCHANGED <<src, prev_pos, page, nread, in_pages, packetVars, commentVars,
                   in_ident, in_stream>>

(***************************************************************************)
(* The streams handed to the scanner.                                      *)
(***************************************************************************)

MaxScanPages == 3     \* pages per framed stream in the scanner's inputs

IdentA ==
    [version |-> 1, channel_count |-> 2, pre_skip |-> 312, input_sample_rate |-> 48000,
     output_gain |-> 0, channel_mapping_family |-> 0, rest |-> <<>>]

IdentB ==
    [version |-> 1, channel_count |-> 1, pre_skip |-> 0, input_sample_rate |-> 44100,
     output_gain |-> 0 - 1, channel_mapping_family |-> 0, rest |-> <<>>]

\* A comment header with the vendor "v" and the one entry "A=x".
TagsA ==
    [vendor |-> <<118>>, entries |-> <<EntryAx>>, forge |-> [kind |-> "none", at |-> 0]]

\* The first k bytes of a signature, k = 1..7.
PartialMagics ==
    {SubSeq(m, 1, k) : m \in {OpusHeadMagic, OpusTagsMagic}, k \in 1..7}

\* Bytes before the first header: nothing, "x", "OOpu", every partial
\* signature ("O", "Op", .., "OpusHea", "OpusT", .., "OpusTag") and every
\* partial signature followed by "O" ("OpusO", "OpusHeO", ..).
Leads ==
    {<<>>, <<120>>, <<79, 79, 112, 117>>}
        \cup PartialMagics \cup {m \o <<79>> : m \in PartialMagics}

\* Bytes between the headers: nothing, "x", "O".
Mids == {<<>>, <<120>>, <<79>>}

\* Bytes after the last header: nothing, "x", "O", "Opus", "OpusHea".
Tails ==
    {<<>>, <<120>>, <<79>>, <<79, 112, 117, 115>>, <<79, 112, 117, 115, 72, 101, 97>>}

\* A header in full, its signature and first three bytes only, or no header.
HeaderPart(bytes, how) ==
    IF how = "full" THEN bytes
    ELSE IF how = "cut" THEN SubSeq(bytes, 1, 11)
    ELSE <<>>

RawStream(st) ==
    st.lead \o HeaderPart(EncodeIdent(IdentA), st.id) \o st.mid
        \o HeaderPart(EncodeComment(TagsA), st.tags) \o st.tail

\* The payloads and header_type of the pages of a framed stream: the
\* identification header on a page with or without bit 0x02, behind another
\* byte, a second identification header, the comment header, other bytes.
ScanPage(kind) ==
    LET mk(ht, b) == [header_type |-> ht, segment_table |-> <<Len(b)>>, payload |-> b]
    IN IF kind = "id_bos" THEN mk(2, EncodeIdent(IdentA))
       ELSE IF kind = "id_plain" THEN mk(0, EncodeIdent(IdentA))
       ELSE IF kind = "id_late" THEN mk(2, <<120>> \o EncodeIdent(IdentA))
       ELSE IF kind = "id_second" THEN mk(0, EncodeIdent(IdentB))
       ELSE IF kind = "tags" THEN mk(0, EncodeComment(TagsA))
       ELSE mk(0, <<120, 121, 122>>)

ScanPageKinds == {"id_bos", "id_plain", "id_late", "id_second", "tags", "other"}

ScanStreams ==
    {[paged |-> FALSE, lead |-> l, id |-> i, mid |-> m, tags |-> t, tail |-> e] :
        l \in Leads, i \in {"none", "full", "cut"}, m \in Mids,
        t \in {"none", "full", "cut"}, e \in Tails}
    \cup {[paged |-> TRUE, kinds |-> k] :
            k \in UNION {[1..n -> ScanPageKinds] : n \in 1..MaxScanPages}}

InitScan ==
    /\ in_stream \in ScanStreams
    /\ in_pages = IF in_stream.paged
                  THEN [j \in 1..Len(in_stream.kinds) |-> ScanPage(in_stream.kinds[j])]
                  ELSE <<>>
    /\ src = IF in_stream.paged THEN EncodePages(in_pages) ELSE RawStream(in_stream)
    /\ pos = 0
    /\ prev_pos = 0
    /\ pc = "scan"
    /\ result = "none"
    /\ page = NoPage
    /\ nread = 0
    /\ continue_reading = FALSE
    /\ relevant_pages = <<>>
    /\ next_packet_page = NoPage
    /\ packets = <<>>
    /\ comment_bytes = <<>>
    /\ cpos = 0
    /\ vendor = <<>>
    /\ user_comments = <<>>
    /\ entries_left = 0
    /\ entries_seen = <<>>
    /\ claimed = 0
    /\ alloc = 0
    /\ budget = 0
    /\ total = 0
    /\ in_header = NoHeader
    /\ ident = NoIdent
    /\ comment = NoComment
    /\ match_result = "None"
    /\ ident_count = 0
    /\ in_ident = NoIdent

NextScan == ScanRead \/ ScanRetry \/ ScanHeader

SpecScan == InitScan /\ [][NextScan]_vars

(***************************************************************************)
(* Claims about the scanner.                                               *)
(***************************************************************************)

\* The stream is a plain byte stream from which a header is missing
\* altogether, and no header in it is cut short.
LacksAHeader ==
    /\ ~in_stream.paged
    /\ in_stream.id \in {"none", "full"}
    /\ in_stream.tags \in {"none", "full"}
    /\ in_stream.id = "none" \/ in_stream.tags = "none"

\* C14: when the stream is exhausted before both headers have been located,
\* the call returns DidNotFindHeaders (HeadersNotFound) and no other error,
\* whatever the bytes the stream ends with.
C14_ExhaustedGivesHeadersNotFound ==
    (pc = "done" /\ LacksAHeader) => result = "DidNotFindHeaders"

\* header_type & 0x2 != 0
BitBeginOfStream(header_type) == (header_type \div 2) % 2 = 1

\* C17: over a stream of intact pages, an IdentificationHeader is produced at
\* most once per call, and only when the first page has bit 0x02 set and its
\* payload begins with 'OpusHead': a stream whose first page lacks bit 0x02, or
\* whose 'OpusHead' stands anywhere else, yields no IdentificationHeader.
C17_IdentOnlyFromFirstPage ==
    (in_stream # NoStream /\ in_stream.paged) =>
        /\ ident_count <= 1
        /\ ident_count >= 1 =>
             /\ BitBeginOfStream(in_pages[1].header_type)
             /\ Len(in_pages[1].payload) >= 8
             /\ SubSeq(in_pages[1].payload, 1, 8) = <<79, 112, 117, 115, 72, 101, 97, 100>>
             /\ pos <= Len(EncodePages(<<in_pages[1]>>))

(***************************************************************************)
(* Termination: the packet reassembly and the scanner, each step measured  *)
(* against what is left of the source.                                     *)
(***************************************************************************)

InitParse == InitPackets \/ InitScan

NextParse ==
    StartPackets \/ PacketReadNext \/ FinishPacket \/ ScanRead \/ ScanRetry \/ ScanHeader

SpecParse == InitParse /\ [][NextParse]_vars

\* What is left to do: three units per unread byte, and up to two for the
\* steps of the running iteration that read nothing.
Measure ==
    3 * (Len(src) - pos)
        + (IF pc = "done" THEN 0
           ELSE IF pc = "scan" THEN 1
           ELSE IF pc = "matched" THEN 2
           ELSE IF pc = "start" THEN 2
           ELSE IF continue_reading THEN 0
           ELSE IF next_packet_page # NoPage THEN 2
           ELSE 1)

\* C19: every call over a finite source terminates.  Each step of the loops
\* of OpusPacket::parse and OpusPackets::parse and of the outer and the Retry
\* loop of parse either ends the call or brings it nearer to the end of the
\* source: it reads at least one byte, or it finishes an iteration that has
\* read one.  The measure is a natural number that every step lowers, so a
\* call over a source of n bytes is over after at most 3n + 2 steps.
C19_EveryStepNearsTheEnd ==
    [][/\ Measure' >= 0
       /\ pc' = "done" \/ Measure' < Measure]_vars

\* A scan that went through the Retry loop ("OpusO" before 'OpusHead') has
\* ended with both headers.
C19_Witness ==
    /\ pc = "done"
    /\ result = "Ok"
    /\ in_stream # NoStream
    /\ ~in_stream.paged
    /\ in_stream.lead = <<79, 112, 117, 115, 79>>
    /\ pos = Len(src)

(***************************************************************************)
(* The scanner and the first signature of the stream.                      *)
(***************************************************************************)

IsMagicAt(s, i) ==
    /\ i + 7 <= Len(s)
    /\ SubSeq(s, i, i + 7) \in {OpusHeadMagic, OpusTagsMagic}

\* The index of the first byte of the first 'OpusHead' or 'OpusTags' of s, 0
\* when s holds neither.
FirstMagic(s) ==
    IF \E i \in 1..Len(s) : IsMagicAt(s, i)
    THEN CHOOSE i \in 1..Len(s) : IsMagicAt(s, i) /\ \A j \in 1..(i - 1) : ~IsMagicAt(s, j)
    ELSE 0

\* The call is still looking for its first signature.
Searching ==
    /\ pc \in {"scan", "matched"}
    /\ ident = NoIdent
    /\ comment = NoComment
    /\ ~(pc = "matched" /\ match_result \in {"Ident", "Comment"})

\* matches_head has just reported the first signature of the source, of the
\* right kind, having read it to its last byte.
AtFirstMagic ==
    LET f == FirstMagic(src) IN
    /\ f # 0
    /\ pc = "matched"
    /\ ident = NoIdent
    /\ comment = NoComment
    /\ pos = f + 7
    /\ match_result = IF SubSeq(src, f, f + 7) = OpusHeadMagic THEN "Ident" ELSE "Comment"

\* C21: the scanner locates the first 'OpusHead' or 'OpusTags' of the stream,
\* also right behind a partial signature such as "Op", "OpusO" or "OpusHeO".
\* While it is looking for its first signature, the byte that starts the first
\* signature has not been consumed, unless it is the 0x4f that Retry carries;
\* its next step goes on looking or reports exactly that signature, and never
\* ends the call; and it reports no signature where the stream has none.
C21_FirstMagicIsLocated ==
    [][LET f == FirstMagic(src) IN
       /\ f = 0 => ~(pc' = "matched" /\ match_result' \in {"Ident", "Comment"})
       /\ (f # 0 /\ Searching) =>
            /\ \/ pos < f
               \/ pos = f /\ pc = "matched" /\ match_result = "Retry"
            /\ Searching' \/ AtFirstMagic']_vars

\* 'OpusHead' has been located right behind "OpusHeO", through a Retry.
C21_Witness ==
    /\ in_stream # NoStream
    /\ ~in_stream.paged
    /\ in_stream.lead = <<79, 112, 117, 115, 72, 101, 79>>
    /\ in_stream.id = "full"
    /\ AtFirstMagic
    /\ match_result = "Ident"
    /\ pos = 15

====
